---- MODULE Spec2Model ----
(***************************************************************************)
(* The Spotify widget service (src/api/spotify.py) and the OAuth callback  *)
(* service (src/api/callback.py).                                          *)
(*                                                                         *)
(* Spec            the widget service handling one request at a time, each *)
(*                 request running through the token cache step by step    *)
(*                 while the clock advances.                               *)
(* SpecConcurrent  several threads calling refreshToken() at once on the   *)
(*                 unlocked token cache.                                   *)
(* SpecCallback    the callback service, a separate Flask application.     *)
(***************************************************************************)
EXTENDS Integers, Sequences, FiniteSets, TLC

\* ------------------------------------------------------------------ bounds
NumThreads == 2       \* request threads of a service
MaxTicks == 2         \* clock advances explored while requests run one at a time
MaxConcurrentTicks == 1   \* clock advances explored while calls run concurrently
MaxTokens == 2        \* access tokens the token endpoint issues
NumTracks == 4        \* tracks of the catalogue; track k has k - 1 album images
MaxRecent == 2        \* items of a recent-tracks response

\* ------------------------------------------------------- program constants
CACHE_SECONDS == 3600     \* spotify.py:105, "Cache for 1 hour"
REQUEST_TIMEOUT == 10     \* spotify.py:126, timeout=10
ImageIndex == 1           \* spotify.py:228, images[1]
NoToken == 0              \* spotify.py:91, access_token None
NoTrack == 0              \* spotify.py:209, item None
None == "<None>"          \* Python None of an optional string argument

Threads == 1..NumThreads
Tracks == 1..NumTracks

\* The clock advances by a second (the latency of a call) or by the cache
\* period, so that times right before, at and after expires_at occur.
TickSteps == {1, CACHE_SECONDS}

\* Python truthiness of an optional string: None and "" are falsy.
Truthy(s) == s /= None /\ s /= ""

\* ------------------------------------------------------------- token cache
\* spotify.py:101  token_cache["access_token"] and token_cache["expires_at"] > time.time()
\* (faulty variant: a check that forgets the expiry)
CacheHitNoExpiry(cache, t) == cache.access_token /= NoToken
CacheHit(cache, t) == cache.access_token /= NoToken /\ cache.expires_at > t

\* spotify.py:105  time.time() + 3600
Expiry(t) == t + CACHE_SECONDS

\* Outcomes of the POST to the token endpoint (spotify.py:126-128):
\*   ok       200 with an access_token field
\*   failure  connection error, timeout or HTTP error status (RequestException)
\*   no_field 200 whose JSON body has no access_token field (KeyError)
TokenOutcomes == {"ok", "failure", "no_field"}

\* spotify.py:129-134  what refreshToken raises; "" when it returns (with the
\* token of the response, or with no token had it swallowed the failure)
\* (faulty variant: failures swallowed, None returned)
RaisesNothing(outcome) == ""
Raises(outcome) ==
    CASE outcome = "failure" -> "RequestException"
      [] outcome = "no_field" -> "KeyError"
      [] OTHER -> ""

\* spotify.py:147, 163  the fetchers catch RequestException only
FetcherCatches(exc) == exc = "RequestException"

\* ------------------------------------------------------------ remote data
\* spotify.py:225  the album images of a track (track k has k - 1 of them)
AlbumImages(k) == k - 1

\* nowPlaying() results: {} or the JSON body of the current-track endpoint
EmptyData == [empty |-> TRUE, item |-> NoTrack, is_playing |-> FALSE]
DataOf(k, playing) == [empty |-> FALSE, item |-> k, is_playing |-> playing]

\* recentlyPlayed() results: {} or the JSON body with its "items" list
EmptyRecent == [hasItems |-> FALSE, items |-> <<>>]
RecentOf(list) == [hasItems |-> TRUE, items |-> list]

\* The lists a recent-tracks response holds: n consecutive tracks of the
\* catalogue, from any track on, so that albums of every size occur in them.
RecentLists ==
    {[i \in 1..n |-> ((first + i - 2) % NumTracks) + 1] :
        first \in Tracks, n \in 0..MaxRecent}

\* spotify.py:293  data == {} or data.get("item") is None
\* (spotify.py:209 adds == "None", a string no response of the endpoint holds)
NoItem(d) == d.empty \/ d.item = NoTrack

\* spotify.py:214, 295, 315  not recent or "items" not in recent or not recent["items"]
NoRecent(r) == ~r.hasItems \/ r.items = <<>>

\* spotify.py:218, 298  random.randint(0, len(items) - 1)
\* (faulty variant: randint(1, len(items)))
ItemIndexesOffByOne(items) == 1..Len(items)
ItemIndexes(items) == 0..(Len(items) - 1)

\* spotify.py:219, 299  items[index]["track"]; NoTrack stands for IndexError
ItemAt(items, index) ==
    IF index + 1 \in DOMAIN items THEN items[index + 1] ELSE NoTrack

\* ------------------------------------------------------------------ themes
\* spotify.py:47-84
THEMES ==
    [default  |-> [gradient |-> "linear-gradient(to right, #1DB954, #191414)",
                   background |-> "191414", text |-> "FFFFFF", accent |-> "1DB954"],
     dark     |-> [gradient |-> "linear-gradient(to right, #1DB954, #191414)",
                   background |-> "191414", text |-> "FFFFFF", accent |-> "1DB954"],
     light    |-> [gradient |-> "linear-gradient(to right, #1ED760, #FFFFFF)",
                   background |-> "FFFFFF", text |-> "191414", accent |-> "1ED760"],
     colorful |-> [gradient |-> "linear-gradient(to right, #B026FF, #FF8A2E, #1DB954, #4062BB)",
                   background |-> "0E1118", text |-> "FFFFFF", accent |-> "1DB954"],
     purple   |-> [gradient |-> "linear-gradient(to right, #7B4397, #DC2430)",
                   background |-> "251431", text |-> "FFFFFF", accent |-> "DC2430"],
     beach    |-> [gradient |-> "linear-gradient(to right, #00C9FF, #92FE9D)",
                   background |-> "002B40", text |-> "FFFFFF", accent |-> "92FE9D"]]

\* spotify.py:87
DEFAULT_THEME == THEMES["default"]

\* spotify.py:206  THEMES.get(theme, DEFAULT_THEME)
\* (faulty variant: the theme argument ignored)
ThemeDataAlwaysDefault(theme) == DEFAULT_THEME
ThemeData(theme) == IF theme \in DOMAIN THEMES THEN THEMES[theme] ELSE DEFAULT_THEME

\* spotify.py:241-242  if not background_color: background_color = theme_data["background"]
Background(background_color, theme_data) ==
    IF ~Truthy(background_color) THEN theme_data.background ELSE background_color

\* spotify.py:243-244  if not border_color: border_color = background_color
Border(border_color, background) ==
    IF ~Truthy(border_color) THEN background ELSE border_color

\* Query arguments of the SVG endpoint (spotify.py:272-274)
ThemeArgs == {None, "", "light", "neon"}
BackgroundArgs == {None, "", "FF0000"}
BorderArgs == {None, "", "00FF00"}

\* ------------------------------------------------------------------ images
\* spotify.py:44
PLACEHOLDER_IMAGE == "PLACEHOLDER_IMAGE"
AlbumArt == "b64(images[1])"

\* spotify.py:189-197  loadImageB64: the art, or the placeholder on RequestException
loadImageB64(loaded) == IF loaded THEN AlbumArt ELSE PLACEHOLDER_IMAGE

\* spotify.py:225-229  the image of the card; "IndexError" when images[1] does not exist
Image(item, loaded) ==
    IF AlbumImages(item) = 0 THEN PLACEHOLDER_IMAGE
    ELSE IF ImageIndex >= AlbumImages(item) THEN "IndexError"
    ELSE loadImageB64(loaded)

\* ---------------------------------------------------------------- responses
\* A response: its status, the template or format of its body and the fields
\* rendered into it. Four fields record how it came about and are not sent:
\* selected (the track makeSVG selected before rendering), source (whether the
\* track is the current one or a recent one) and the two colour arguments.
NoResp ==
    [status |-> 0, template |-> "", error |-> "", item |-> NoTrack, label |-> "",
     contentBar |-> FALSE, image |-> "", theme |-> None, background |-> "",
     border |-> "", gradient |-> "", is_playing |-> "", items |-> <<>>,
     selected |-> NoTrack, source |-> "", background_color |-> None,
     border_color |-> None]

\* spotify.py:215, 265, 279  the error fragment, sent as an SVG response
ErrorFragment(message, selected) ==
    [NoResp EXCEPT !.status = 200, !.template = "error.html.j2", !.error = message,
                   !.selected = selected]

\* spotify.py:224-265  the rest of makeSVG once the item is selected (label is
\* "Vibing to:" for the current track, "Was playing:" for a recent one)
Card(item, label, bars, loaded, theme, background_color, border_color) ==
    LET theme_data == ThemeData(theme)
        image == Image(item, loaded)
        background == Background(background_color, theme_data)
        source == IF label = "Vibing to:" THEN "current" ELSE "recent"
    IN  IF image = "IndexError"
        THEN [ErrorFragment("Unable to generate Spotify card", item)
                 EXCEPT !.source = source]
        ELSE [NoResp EXCEPT !.status = 200, !.template = "spotify.html.j2",
                            !.source = source,
                            !.background_color = background_color,
                            !.border_color = border_color,
                            !.item = item, !.label = label, !.contentBar = bars,
                            !.image = image, !.theme = theme,
                            !.background = background,
                            !.border = Border(border_color, background),
                            !.gradient = theme_data.gradient,
                            !.selected = item]

\* spotify.py:285  Response("Error generating Spotify card", status=500)
ServerErrorText == [NoResp EXCEPT !.status = 500, !.template = "text",
                                  !.error = "Error generating Spotify card"]

\* spotify.py:296, 307, 316, 320  jsonify({"error": ...}), status
JsonError(status, message) ==
    [NoResp EXCEPT !.status = status, !.template = "json", !.error = message]

\* spotify.py:300-304  jsonify of a track snapshot
JsonTrack(item, playing, source) ==
    [NoResp EXCEPT !.status = 200, !.template = "json", !.item = item,
                   !.is_playing = IF playing THEN "true" ELSE "false",
                   !.source = source]

\* spotify.py:317  jsonify of the recent list
JsonRecent(r) == [NoResp EXCEPT !.status = 200, !.template = "json", !.items = r.items]

\* ------------------------------------------------------------------- state
VARIABLES
    now,           \* time.time(), in seconds since the process started
    ticks,         \* clock advances so far
    token_cache,   \* spotify.py:90-93
    issuedAt,      \* issuedAt[k]: when the token endpoint issued access token k
    lastRefresh,   \* outcome of the latest token-endpoint call: none, ok, failed
    pc,            \* where each thread stands
    kind,          \* the request a thread handles: svg, now_playing, recent, call
    fetcher,       \* the caller of refreshToken: nowPlaying, recentlyPlayed, caller
    access_token,  \* spotify.py:103, the wrapper's local
    token,         \* spotify.py:139, 154, the fetcher's local
    sentAt,        \* when the pending token request was sent
    posts,         \* token-endpoint calls of the current refreshToken call
    reqPosts,      \* token-endpoint calls of the current request
    raised,        \* the exception propagating to the handler, "" for none
    data,          \* spotify.py:276, 292, the result of nowPlaying()
    recent,        \* spotify.py:212, 294, 314, the result of recentlyPlayed()
    resp,          \* the response of the latest request of each thread
    cb_pc,         \* callback.py: where each callback handler stands
    cb_code,       \* callback.py:34
    cb_posts,      \* token-endpoint calls of the current callback request
    cb_resp        \* the response of the latest callback request

cacheVars == <<token_cache, issuedAt, lastRefresh>>
threadVars == <<pc, kind, fetcher, access_token, token, sentAt, posts, reqPosts,
                raised, data, recent, resp>>
cbVars == <<cb_pc, cb_code, cb_posts, cb_resp>>
vars == <<now, ticks, cacheVars, threadVars, cbVars>>

\* callback.py responses
\* (exchange records the outcome of the token exchange and is not sent)
NoCbResp == [status |-> 0, body |-> "", refresh_token |-> "", exchange |-> ""]

Init ==
    /\ now = 1
    /\ ticks = 0
    /\ token_cache = [access_token |-> NoToken, expires_at |-> 0]
    /\ issuedAt = <<>>
    /\ lastRefresh = "none"
    /\ pc = [t \in Threads |-> "idle"]
    /\ kind = [t \in Threads |-> ""]
    /\ fetcher = [t \in Threads |-> ""]
    /\ access_token = [t \in Threads |-> NoToken]
    /\ token = [t \in Threads |-> NoToken]
    /\ sentAt = [t \in Threads |-> 0]
    /\ posts = [t \in Threads |-> 0]
    /\ reqPosts = [t \in Threads |-> 0]
    /\ raised = [t \in Threads |-> ""]
    /\ data = [t \in Threads |-> EmptyData]
    /\ recent = [t \in Threads |-> EmptyRecent]
    /\ resp = [t \in Threads |-> NoResp]
    /\ cb_pc = [t \in Threads |-> "idle"]
    /\ cb_code = [t \in Threads |-> None]
    /\ cb_posts = [t \in Threads |-> 0]
    /\ cb_resp = [t \in Threads |-> NoCbResp]

\* -------------------------------------------------------------------- clock
Tick ==
    /\ ticks < MaxTicks
    /\ \E d \in TickSteps : now' = now + d
    /\ ticks' = ticks + 1
    /\ UNCHANGED <<cacheVars, threadVars, cbVars>>

\* ------------------------------------------------- refreshToken, step by step
\* spotify.py:101  the wrapper's check of the cache
WrapperCheck(t) ==
    /\ pc[t] = "refreshToken"
    /\ pc' = [pc EXCEPT ![t] = IF CacheHit(token_cache, now) THEN "hit" ELSE "post"]
    /\ posts' = [posts EXCEPT ![t] = 0]
    /\ UNCHANGED <<now, ticks, cacheVars, kind, fetcher, access_token, token, sentAt,
                   reqPosts, raised, data, recent, resp, cbVars>>

\* The pc of a thread whose refreshToken call returned a token
AfterReturn(t) == IF fetcher[t] = "caller" THEN "returned" ELSE "get"

\* The pc of a thread whose fetcher returned or let an exception through
AfterFetcher(t) ==
    CASE fetcher[t] = "nowPlaying" -> "after_nowPlaying"
      [] fetcher[t] = "recentlyPlayed" -> "after_recentlyPlayed"
      [] OTHER -> "returned"

\* spotify.py:102  return token_cache["access_token"]
WrapperHit(t) ==
    /\ pc[t] = "hit"
    /\ token' = [token EXCEPT ![t] = token_cache.access_token]
    /\ pc' = [pc EXCEPT ![t] = AfterReturn(t)]
    /\ UNCHANGED <<now, ticks, cacheVars, kind, fetcher, access_token, sentAt, posts,
                   reqPosts, raised, data, recent, resp, cbVars>>

\* spotify.py:103, 126  func(): the POST to the token endpoint is sent
TokenPost(t) ==
    /\ pc[t] = "post"
    /\ sentAt' = [sentAt EXCEPT ![t] = now]
    /\ posts' = [posts EXCEPT ![t] = @ + 1]
    /\ reqPosts' = [reqPosts EXCEPT ![t] = @ + 1]
    /\ pc' = [pc EXCEPT ![t] = "await"]
    /\ UNCHANGED <<now, ticks, cacheVars, kind, fetcher, access_token, token, raised,
                   data, recent, resp, cbVars>>

\* spotify.py:126-134  the response of the token endpoint arrives (within the
\* timeout, else the call fails); a token is issued when the request arrives or
\* when the response leaves. An exception unwinds the wrapper, which writes
\* nothing, into the fetcher (spotify.py:147-149, 163-165).
TokenRespond(t, outcome) ==
    /\ pc[t] = "await"
    /\ outcome /= "failure" => now - sentAt[t] <= REQUEST_TIMEOUT
    /\ outcome = "ok" => Len(issuedAt) < MaxTokens
    /\ \E at \in {sentAt[t], now} :
          issuedAt' = IF outcome = "ok" THEN Append(issuedAt, at) ELSE issuedAt
    /\ lastRefresh' = IF outcome = "ok" THEN "ok" ELSE "failed"
    /\ sentAt' = [sentAt EXCEPT ![t] = 0]
    /\ LET exc == Raises(outcome)
       IN  IF exc = ""
           THEN /\ access_token' = [access_token EXCEPT ![t] =
                        IF outcome = "ok" THEN Len(issuedAt) + 1 ELSE NoToken]
                /\ pc' = [pc EXCEPT ![t] = "store_token"]
                /\ UNCHANGED <<raised, data, recent>>
           ELSE /\ pc' = [pc EXCEPT ![t] = AfterFetcher(t)]
                /\ raised' = [raised EXCEPT ![t] =
                        IF fetcher[t] /= "caller" /\ FetcherCatches(exc) THEN "" ELSE exc]
                /\ data' = IF fetcher[t] = "nowPlaying"
                           THEN [data EXCEPT ![t] = EmptyData] ELSE data
                /\ recent' = IF fetcher[t] = "recentlyPlayed"
                             THEN [recent EXCEPT ![t] = EmptyRecent] ELSE recent
                /\ UNCHANGED access_token
    /\ UNCHANGED <<now, ticks, token_cache, kind, fetcher, token, posts, reqPosts,
                   resp, cbVars>>

\* spotify.py:104  token_cache["access_token"] = access_token
StoreToken(t) ==
    /\ pc[t] = "store_token"
    /\ token_cache' = [token_cache EXCEPT !.access_token = access_token[t]]
    /\ pc' = [pc EXCEPT ![t] = "store_expiry"]
    /\ UNCHANGED <<now, ticks, issuedAt, lastRefresh, kind, fetcher, access_token,
                   token, sentAt, posts, reqPosts, raised, data, recent, resp, cbVars>>

\* spotify.py:105-106  token_cache["expires_at"] = time.time() + 3600; return
StoreExpiry(t) ==
    /\ pc[t] = "store_expiry"
    /\ token_cache' = [token_cache EXCEPT !.expires_at = Expiry(now)]
    /\ token' = [token EXCEPT ![t] = access_token[t]]
    /\ access_token' = [access_token EXCEPT ![t] = NoToken]
    /\ pc' = [pc EXCEPT ![t] = AfterReturn(t)]
    /\ UNCHANGED <<now, ticks, issuedAt, lastRefresh, kind, fetcher, sentAt, posts,
                   reqPosts, raised, data, recent, resp, cbVars>>

refreshToken(t) ==
    \/ WrapperCheck(t)
    \/ WrapperHit(t)
    \/ TokenPost(t)
    \/ \E outcome \in TokenOutcomes : TokenRespond(t, outcome)
    \/ StoreToken(t)
    \/ StoreExpiry(t)

\* --------------------------------------------- concurrent refreshToken callers
\* spotify.py:139, 154  a thread calls refreshToken()
CallRefreshToken(t) ==
    /\ pc[t] = "idle"
    /\ pc' = [pc EXCEPT ![t] = "refreshToken"]
    /\ kind' = [kind EXCEPT ![t] = "call"]
    /\ fetcher' = [fetcher EXCEPT ![t] = "caller"]
    /\ reqPosts' = [reqPosts EXCEPT ![t] = 0]
    /\ UNCHANGED <<now, ticks, cacheVars, access_token, token, sentAt, posts, raised,
                   data, recent, resp, cbVars>>

\* the caller takes the returned token, or the exception, and goes on
CallerDone(t) ==
    /\ pc[t] = "returned"
    /\ pc' = [pc EXCEPT ![t] = "idle"]
    /\ token' = [token EXCEPT ![t] = NoToken]
    /\ raised' = [raised EXCEPT ![t] = ""]
    /\ UNCHANGED <<now, ticks, cacheVars, kind, fetcher, access_token, sentAt, posts,
                   reqPosts, data, recent, resp, cbVars>>

\* ------------------------------------------------------------- the fetchers
\* spotify.py:155-165  nowPlaying() after its token: the GET of the current track.
\*   track      200 with a track item         idle     204, no content
\*   null_item  200 whose item is null        failure  RequestException, caught
NowPlayingOutcomes == {"track", "null_item", "idle", "failure"}

NowPlayingGet(t, outcome, k, playing) ==
    /\ pc[t] = "get"
    /\ fetcher[t] = "nowPlaying"
    /\ data' = [data EXCEPT ![t] =
            CASE outcome = "track" -> DataOf(k, playing)
              [] outcome = "null_item" -> DataOf(NoTrack, playing)
              [] OTHER -> EmptyData]
    /\ token' = [token EXCEPT ![t] = NoToken]
    /\ pc' = [pc EXCEPT ![t] = "after_nowPlaying"]
    /\ UNCHANGED <<now, ticks, cacheVars, kind, fetcher, access_token, sentAt, posts,
                   reqPosts, raised, recent, resp, cbVars>>

\* spotify.py:140-149  recentlyPlayed() after its token: the GET of the recent tracks.
\*   items  200 with a list of items   nocontent  204   failure  RequestException, caught
RecentOutcomes == {"items", "nocontent", "failure"}

RecentlyPlayedGet(t, outcome, list) ==
    /\ pc[t] = "get"
    /\ fetcher[t] = "recentlyPlayed"
    /\ recent' = [recent EXCEPT ![t] =
            IF outcome = "items" THEN RecentOf(list) ELSE EmptyRecent]
    /\ token' = [token EXCEPT ![t] = NoToken]
    /\ pc' = [pc EXCEPT ![t] = "after_recentlyPlayed"]
    /\ UNCHANGED <<now, ticks, cacheVars, kind, fetcher, access_token, sentAt, posts,
                   reqPosts, raised, data, resp, cbVars>>

\* ------------------------------------------------------------- the handlers
\* A request starts: its first call is nowPlaying() or recentlyPlayed(), whose
\* first call is refreshToken().
Start(t, k, f) ==
    /\ pc[t] = "idle"
    /\ kind' = [kind EXCEPT ![t] = k]
    /\ fetcher' = [fetcher EXCEPT ![t] = f]
    /\ pc' = [pc EXCEPT ![t] = "refreshToken"]
    /\ reqPosts' = [reqPosts EXCEPT ![t] = 0]
    /\ posts' = [posts EXCEPT ![t] = 0]
    /\ raised' = [raised EXCEPT ![t] = ""]
    /\ resp' = [resp EXCEPT ![t] = NoResp]
    /\ UNCHANGED <<now, ticks, cacheVars, access_token, token, sentAt, data, recent,
                   cbVars>>

\* The handler answers: its locals go away.
Answer(t, response) ==
    /\ resp' = [resp EXCEPT ![t] = response]
    /\ pc' = [pc EXCEPT ![t] = "idle"]
    /\ raised' = [raised EXCEPT ![t] = ""]
    /\ data' = [data EXCEPT ![t] = EmptyData]
    /\ recent' = [recent EXCEPT ![t] = EmptyRecent]
    /\ UNCHANGED <<now, ticks, cacheVars, kind, fetcher, access_token, token, sentAt,
                   posts, reqPosts, cbVars>>

\* The handler goes on to recentlyPlayed() (spotify.py:212, 294).
CallRecentlyPlayed(t) ==
    /\ fetcher' = [fetcher EXCEPT ![t] = "recentlyPlayed"]
    /\ pc' = [pc EXCEPT ![t] = "refreshToken"]
    /\ UNCHANGED <<now, ticks, cacheVars, kind, access_token, token, sentAt, posts,
                   reqPosts, raised, data, recent, resp, cbVars>>

\* spotify.py:270-276  GET /<path>: the SVG endpoint calls nowPlaying()
catch_all(t) == Start(t, "svg", "nowPlaying")

\* spotify.py:277-285, 200-222  nowPlaying() is back: an exception it let through
\* is answered 500; else makeSVG renders the current item or calls recentlyPlayed().
\* The query arguments are read-only; they are drawn where makeSVG uses them.
makeSVG(t, theme, background_color, border_color, loaded) ==
    /\ pc[t] = "after_nowPlaying"
    /\ kind[t] = "svg"
    /\ IF raised[t] /= "" THEN Answer(t, ServerErrorText)
       ELSE IF NoItem(data[t]) THEN CallRecentlyPlayed(t)
       ELSE Answer(t, Card(data[t].item, "Vibing to:", TRUE, loaded, theme,
                           background_color, border_color))

\* spotify.py:212-265  recentlyPlayed() is back inside makeSVG: an exception is
\* caught by makeSVG; else one of the recent items is rendered.
makeSVG_recent(t, theme, background_color, border_color, loaded) ==
    /\ pc[t] = "after_recentlyPlayed"
    /\ kind[t] = "svg"
    /\ IF raised[t] /= ""
       THEN Answer(t, ErrorFragment("Unable to generate Spotify card", NoTrack))
       ELSE IF NoRecent(recent[t])
       THEN Answer(t, ErrorFragment("No recent songs found", NoTrack))
       ELSE \E itemIndex \in ItemIndexes(recent[t].items) :
               LET item == ItemAt(recent[t].items, itemIndex)
               IN  IF item = NoTrack
                   THEN Answer(t, ErrorFragment("Unable to generate Spotify card", NoTrack))
                   ELSE Answer(t, Card(item, "Was playing:", FALSE, loaded, theme,
                                       background_color, border_color))

\* spotify.py:288-292  GET /now-playing calls nowPlaying()
now_playing_json(t) == Start(t, "now_playing", "nowPlaying")

\* spotify.py:293-294, 304-307  nowPlaying() is back
now_playing_json_data(t) ==
    /\ pc[t] = "after_nowPlaying"
    /\ kind[t] = "now_playing"
    /\ IF raised[t] /= "" THEN Answer(t, JsonError(500, raised[t]))
       ELSE IF NoItem(data[t]) THEN CallRecentlyPlayed(t)
       ELSE Answer(t, JsonTrack(data[t].item, data[t].is_playing, "current"))

\* spotify.py:295-307  recentlyPlayed() is back
now_playing_json_recent(t) ==
    /\ pc[t] = "after_recentlyPlayed"
    /\ kind[t] = "now_playing"
    /\ IF raised[t] /= "" THEN Answer(t, JsonError(500, raised[t]))
       ELSE IF NoRecent(recent[t])
       THEN Answer(t, JsonError(404, "No recent songs found"))
       ELSE \E item_index \in ItemIndexes(recent[t].items) :
               LET item == ItemAt(recent[t].items, item_index)
               IN  IF item = NoTrack THEN Answer(t, JsonError(500, "IndexError"))
                   ELSE Answer(t, JsonTrack(item, FALSE, "recent"))

\* spotify.py:310-314  GET /recent calls recentlyPlayed()
recently_played_json(t) == Start(t, "recent", "recentlyPlayed")

\* spotify.py:315-320  recentlyPlayed() is back
recently_played_json_data(t) ==
    /\ pc[t] = "after_recentlyPlayed"
    /\ kind[t] = "recent"
    /\ IF raised[t] /= "" THEN Answer(t, JsonError(500, raised[t]))
       ELSE IF NoRecent(recent[t])
       THEN Answer(t, JsonError(404, "No recent songs found"))
       ELSE Answer(t, JsonRecent(recent[t]))

\* The one thread of a service instance that handles its requests in turn
Handler == CHOOSE t \in Threads : \A u \in Threads : t <= u

Next ==
    \/ Tick
    \/ catch_all(Handler)
    \/ now_playing_json(Handler)
    \/ recently_played_json(Handler)
    \/ refreshToken(Handler)
    \/ \E outcome \in NowPlayingOutcomes, k \in Tracks, playing \in BOOLEAN :
          NowPlayingGet(Handler, outcome, k, playing)
    \/ \E outcome \in RecentOutcomes, list \in RecentLists :
          RecentlyPlayedGet(Handler, outcome, list)
    \/ \E theme \in ThemeArgs, background_color \in BackgroundArgs,
          border_color \in BorderArgs, loaded \in BOOLEAN :
          \/ makeSVG(Handler, theme, background_color, border_color, loaded)
          \/ makeSVG_recent(Handler, theme, background_color, border_color, loaded)
    \/ now_playing_json_data(Handler)
    \/ now_playing_json_recent(Handler)
    \/ recently_played_json_data(Handler)

Spec == Init /\ [][Next]_vars

NextConcurrent ==
    \/ ticks < MaxConcurrentTicks /\ Tick
    \/ \E t \in Threads : CallRefreshToken(t) \/ refreshToken(t) \/ CallerDone(t)

SpecConcurrent == Init /\ [][NextConcurrent]_vars

\* ------------------------------------------------------ the callback service
\* callback.py:34  the code query argument: absent, empty or an authorization code
Codes == {None, "", "AQB7", "AQC9"}

\* Outcomes of the POST to the token endpoint (callback.py:52-55):
\*   ok                200, JSON with a refresh_token field
\*   no_refresh_token  200, JSON without a refresh_token field
\*   not_json          200, a body that is no JSON (json() raises)
\*   http_error        an HTTP error status (raise_for_status raises)
\*   network           no response (ConnectionError)
ExchangeOutcomes == {"ok", "no_refresh_token", "not_json", "http_error", "network"}

\* callback.py:95  tokens.get('refresh_token'), formatted into the page: a
\* missing field formats as the string None and raises nothing
RefreshTokenShown(outcome) == IF outcome = "ok" THEN "refresh-token" ELSE "None"

\* callback.py:53-55, 95, 102-107  the exception the exchange ends with, "" for
\* none. A body that is no JSON raises requests' JSONDecodeError, a
\* RequestException (a plain ValueError in old versions of requests, which Flask
\* answers with 500 as well). tokens.get never raises KeyError.
ExchangeRaises(outcome) ==
    CASE outcome \in {"http_error", "network", "not_json"} -> "RequestException"
      [] OTHER -> ""

\* callback.py:34-37  GET /callback: 400 without a code
callback(h, code) ==
    /\ cb_pc[h] = "idle"
    /\ cb_code' = [cb_code EXCEPT ![h] = code]
    /\ cb_posts' = [cb_posts EXCEPT ![h] = 0]
    /\ IF ~Truthy(code)
       THEN /\ cb_resp' = [cb_resp EXCEPT ![h] =
                    [status |-> 400, body |-> "Authorization code not found",
                     refresh_token |-> "", exchange |-> ""]]
            /\ UNCHANGED cb_pc
       ELSE /\ cb_resp' = [cb_resp EXCEPT ![h] = NoCbResp]
            /\ cb_pc' = [cb_pc EXCEPT ![h] = "post"]
    /\ UNCHANGED <<now, ticks, cacheVars, threadVars>>

\* callback.py:41-52  the POST of the code to the token endpoint, without timeout
callback_post(h) ==
    /\ cb_pc[h] = "post"
    /\ cb_posts' = [cb_posts EXCEPT ![h] = @ + 1]
    /\ cb_pc' = [cb_pc EXCEPT ![h] = "await"]
    /\ UNCHANGED <<now, ticks, cacheVars, threadVars, cb_code, cb_resp>>

\* callback.py:53-107  the response of the token endpoint and the handler's answer
callback_response(h, outcome) ==
    /\ cb_pc[h] = "await"
    /\ cb_resp' = [cb_resp EXCEPT ![h] =
            IF ExchangeRaises(outcome) = ""
            THEN [status |-> 200, body |-> "Authorization Successful!",
                  refresh_token |-> RefreshTokenShown(outcome), exchange |-> outcome]
            ELSE [status |-> 500, body |-> "Failed to exchange code for tokens",
                  refresh_token |-> "", exchange |-> outcome]]
    /\ cb_pc' = [cb_pc EXCEPT ![h] = "idle"]
    /\ UNCHANGED <<now, ticks, cacheVars, threadVars, cb_code, cb_posts>>

NextCallback ==
    \E h \in Threads :
        \/ \E code \in Codes : callback(h, code)
        \/ callback_post(h)
        \/ \E outcome \in ExchangeOutcomes : callback_response(h, outcome)

SpecCallback == Init /\ [][NextCallback]_vars

\* ---------------------------------------------------------------- the claims
\* An access token of the remote service is valid for one hour from its issue.
RemoteLifetime == 60 * 60

\* Whether the token endpoint issued k, and until when the remote service takes it
Issued(k) == k \in 1..Len(issuedAt)
ValidUntil(k) == issuedAt[k] + RemoteLifetime

\* C1: with the refreshToken calls made one after another, a call made while a
\* token is cached and now < expires_at returns the cached token and calls the
\* token endpoint not at all; a call made with no token cached or after
\* expires_at goes to the token endpoint, exactly once, and when the endpoint
\* answers with a token the call stores that token with expires_at = now + 3600
\* and returns it; the token endpoint is never called while a cached token has
\* not reached its expires_at.
C1_CacheReuse ==
    [][LET t == Handler
           cached == token_cache.access_token /= NoToken
       IN  /\ (pc[t] = "refreshToken" /\ pc'[t] /= "refreshToken") =>
                 /\ (cached /\ now < token_cache.expires_at) => pc'[t] = "hit"
                 /\ (~cached \/ now > token_cache.expires_at) => pc'[t] = "post"
           /\ (pc[t] = "hit" /\ pc'[t] /= "hit") =>
                 /\ token'[t] = token_cache.access_token
                 /\ posts[t] = 0
                 /\ issuedAt' = issuedAt
                 /\ token_cache' = token_cache
           /\ (pc[t] = "post" /\ pc'[t] /= "post") =>
                 /\ posts'[t] = 1
                 /\ ~cached \/ now >= token_cache.expires_at
           /\ (pc[t] = "await" /\ pc'[t] /= "await") => posts[t] = 1
           /\ (pc[t] = "store_expiry" /\ pc'[t] /= "store_expiry") =>
                 /\ posts[t] = 1
                 /\ token'[t] = Len(issuedAt)
                 /\ token_cache'.access_token = token'[t]
                 /\ token_cache'.expires_at = now + 3600
      ]_vars

\* C1 witness: the second token, fetched by one call after the first token
\* expired, is returned from the cache by a later call that called no endpoint.
C1_Witness ==
    /\ pc[Handler] = "get"
    /\ posts[Handler] = 0
    /\ token[Handler] = 2
    /\ token_cache.access_token = 2
    /\ now < token_cache.expires_at

\* C2: a token present in the cache is valid for remote calls at every time
\* before expires_at, a token being valid for one hour from its issue.
C2_CachedTokenValid ==
    token_cache.access_token /= NoToken =>
        /\ Issued(token_cache.access_token)
        /\ token_cache.expires_at <= ValidUntil(token_cache.access_token)

\* C3: under any interleaving of concurrent refreshToken calls every call that
\* returns, returns a token the token endpoint issued, a call that found a hit
\* still finds a token when it reads the cache, and the cache never holds an
\* absent token or one never issued as if it were current.
C3_ReturnsIssuedToken ==
    /\ \A t \in Threads :
          /\ (pc[t] \in {"returned", "get"} /\ raised[t] = "") =>
                (token[t] /= NoToken /\ Issued(token[t]))
          /\ pc[t] = "hit" => (token_cache.access_token /= NoToken
                                /\ Issued(token_cache.access_token))
    /\ token_cache.access_token = NoToken => token_cache.expires_at = 0
    /\ token_cache.access_token /= NoToken => Issued(token_cache.access_token)

\* C3 witness: a lost race. Two calls missed the cache and each fetched a
\* token; one returns the first token while the cache holds the second.
C3_Witness ==
    /\ Len(issuedAt) = 2
    /\ issuedAt[2] < ValidUntil(1)
    /\ token_cache.access_token = 2
    /\ \E t \in Threads : pc[t] = "returned" /\ raised[t] = "" /\ token[t] = 1
    /\ \E u \in Threads : pc[u] = "store_expiry" /\ access_token[u] = 2

\* C4: whatever the remote outcomes, no exception leaves nowPlaying or
\* recentlyPlayed, and the SVG endpoint answers 200 with the card or the error
\* fragment, never with a failure status.
C4_SvgNeverFails ==
    /\ raised[Handler] = ""
    /\ (kind[Handler] = "svg" /\ resp[Handler].status /= 0) =>
          /\ resp[Handler].status = 200
          /\ resp[Handler].template \in {"spotify.html.j2", "error.html.j2"}

\* C5: when makeSVG answers after the snapshot had no item and the recent
\* tracks held N > 0 items, the answer is the card of one of the N items
\* labelled "Was playing:"; when the snapshot had an item, the answer is the
\* card of that item labelled "Vibing to:".
C5_RenderedTrack ==
    [][LET t == Handler
       IN  /\ (/\ kind[t] = "svg" /\ pc[t] = "after_recentlyPlayed" /\ pc'[t] = "idle"
               /\ raised[t] = "" /\ recent[t].hasItems /\ Len(recent[t].items) > 0) =>
                 /\ resp'[t].template = "spotify.html.j2"
                 /\ resp'[t].label = "Was playing:"
                 /\ \E i \in 1..Len(recent[t].items) : resp'[t].item = recent[t].items[i]
           /\ (/\ kind[t] = "svg" /\ pc[t] = "after_nowPlaying" /\ pc'[t] = "idle"
               /\ raised[t] = "" /\ ~data[t].empty /\ data[t].item /= NoTrack) =>
                 /\ resp'[t].template = "spotify.html.j2"
                 /\ resp'[t].label = "Vibing to:"
                 /\ resp'[t].item = data[t].item
      ]_vars

\* C6: /now-playing answers 404 with an error body when the snapshot has no
\* item and the recent list is empty or missing, and 200 with is_playing false
\* and the track of one of the N recent items when the list holds N > 0 items;
\* /recent answers 404 with an error body when the list is empty or missing and
\* 200 with the list otherwise.
C6_JsonEndpoints ==
    [][LET t == Handler
           answered == pc[t] = "after_recentlyPlayed" /\ pc'[t] = "idle" /\ raised[t] = ""
           none == ~recent[t].hasItems \/ Len(recent[t].items) = 0
       IN  /\ (answered /\ kind[t] = "now_playing") =>
                 /\ data[t].empty \/ data[t].item = NoTrack
                 /\ IF none
                    THEN resp'[t].status = 404 /\ resp'[t].error /= ""
                    ELSE /\ resp'[t].status = 200
                         /\ resp'[t].is_playing = "false"
                         /\ \E i \in 1..Len(recent[t].items) :
                               resp'[t].item = recent[t].items[i]
           /\ (answered /\ kind[t] = "recent") =>
                 IF none
                 THEN resp'[t].status = 404 /\ resp'[t].error /= ""
                 ELSE resp'[t].status = 200 /\ resp'[t].items = recent[t].items
      ]_vars

\* C6 witness: /now-playing answered 200 with is_playing false and a recent track.
C6_Witness ==
    /\ kind[Handler] = "now_playing"
    /\ resp[Handler].status = 200
    /\ resp[Handler].source = "recent"
    /\ resp[Handler].is_playing = "false"
    /\ resp[Handler].item /= NoTrack

\* C7: on a rendered card the gradient and background are those of
\* THEMES[theme] for a known theme name and those of the default theme for an
\* unknown or absent name; a supplied (non-empty) background_color or
\* border_color is the one rendered; without border_color the border is the
\* effective background.
C7_ThemeAndOverrides ==
    LET r == resp[Handler]
        known == r.theme \in {"default", "dark", "light", "colorful", "purple", "beach"}
        themed == IF known THEN THEMES[r.theme] ELSE THEMES["default"]
        supplied(c) == c /= None /\ c /= ""
    IN  r.template = "spotify.html.j2" =>
           /\ r.gradient = themed.gradient
           /\ r.background = IF supplied(r.background_color) THEN r.background_color
                             ELSE themed.background
           /\ r.border = IF supplied(r.border_color) THEN r.border_color
                         ELSE r.background

\* C7 witness: a card of the light theme with a background override and no
\* border colour, whose border is the override.
C7_Witness ==
    /\ resp[Handler].template = "spotify.html.j2"
    /\ resp[Handler].theme = "light"
    /\ resp[Handler].gradient = "linear-gradient(to right, #1ED760, #FFFFFF)"
    /\ resp[Handler].background_color = "FF0000"
    /\ resp[Handler].border_color = None
    /\ resp[Handler].border = "FF0000"

\* C8: for a selected track with any number of album images makeSVG renders a
\* card, with the placeholder when the album has no image or loading fails and
\* the loaded art otherwise; the answer is never the error fragment.
C8_CardForAnyAlbum ==
    LET r == resp[Handler]
    IN  r.selected /= NoTrack =>
           /\ r.template = "spotify.html.j2"
           /\ r.image \in {PLACEHOLDER_IMAGE, AlbumArt}
           /\ AlbumImages(r.selected) = 0 => r.image = PLACEHOLDER_IMAGE

\* C9: /callback answers 400 without a token-endpoint call when the code is
\* absent or empty; with a code it calls the token endpoint once, answers with
\* the page only when the exchange returned a well-formed response, and answers
\* 500 on a remote failure or a malformed response.
C9_CallbackExchange ==
    \A h \in Threads :
        /\ cb_posts[h] <= 1
        /\ (cb_pc[h] = "idle" /\ ~Truthy(cb_code[h]) /\ cb_resp[h].status /= 0) =>
              (cb_resp[h].status = 400 /\ cb_posts[h] = 0)
        /\ cb_resp[h].status = 200 => cb_resp[h].exchange = "ok"
        /\ cb_resp[h].exchange \in (ExchangeOutcomes \ {"ok"}) => cb_resp[h].status = 500

\* C10: from a failed token-endpoint call until the next answer of the token
\* endpoint nothing is written to the token cache, and the next refreshToken
\* call after a failed one calls the token endpoint again.
C10_FailureNotCached ==
    [][LET t == Handler
       IN  /\ lastRefresh' = "failed" => token_cache' = token_cache
           /\ (pc[t] = "refreshToken" /\ pc'[t] /= "refreshToken"
               /\ lastRefresh = "failed") => pc'[t] = "post"
      ]_vars

\* C10 witness: one widget request whose nowPlaying() failed to refresh the
\* token has its second token-endpoint call in flight from recentlyPlayed().
C10_Witness ==
    /\ kind[Handler] \in {"svg", "now_playing"}
    /\ fetcher[Handler] = "recentlyPlayed"
    /\ pc[Handler] = "await"
    /\ lastRefresh = "failed"
    /\ reqPosts[Handler] = 2

====
